---- MODULE Spec2Model ----
(***************************************************************************)
(* Model of src/reformat_text.py: the sentence chunker                     *)
(* (split_into_contextual_chunks), the thread-pool dispatcher              *)
(* (process_chunk, process_chunks_parallel), the process-wide CostTracker  *)
(* and the reformat_text pipeline.                                         *)
(*                                                                         *)
(* Strings of the chunker are sequences of one-character strings.  Strings *)
(* of the dispatcher are sequences of tokens (a token is an atomic piece   *)
(* of text: a marker, the separator, a blank, the payload of a chunk).     *)
(***************************************************************************)
EXTENDS Integers, Sequences, FiniteSets, TLC

VARIABLES
    \* ---- split_into_contextual_chunks ----
    text,            \* argument text
    max_chunk_size,  \* argument max_chunk_size
    sentences,       \* local: list of sentence fragments
    idx,             \* position of the for loop in sentences
    current_chunk,   \* local: running buffer
    chunks,          \* local / return value: list of chunks
    cpc,             \* control point of the chunker
    \* ---- process_chunks_parallel / process_chunk / CostTracker / reformat_text ----
    nchunks,         \* len(chunks) handed to the dispatcher
    wpc,             \* control point of each submitted task
    resp,            \* response object the remote call gave each task
    tmp,             \* value each worker has loaded for its pending += store
    fut,             \* result stored in each future
    results,         \* local list results of process_chunks_parallel
    collected,       \* futures as_completed has already yielded
    total_tokens,
    total_prompt_tokens,
    total_completion_tokens,
    max_workers,     \* argument max_workers of process_chunks_parallel
    mpc,             \* control point of reformat_text
    output           \* content written to output_file

cvars == <<text, max_chunk_size, sentences, idx, current_chunk, chunks, cpc>>
dvars == <<nchunks, wpc, resp, tmp, fut, results, collected, total_tokens,
           total_prompt_tokens, total_completion_tokens, max_workers, mpc, output>>
vars == <<cvars, dvars>>

----------------------------------------------------------------------------
(* Bounds *)

\* number of pieces an input text is built from
MaxPieces == 4
\* max_chunk_size ranges over MinChunkLen+1 .. MinChunkLen+1+SizeSpan
SizeSpan == 2
\* largest number of chunks handed to the dispatcher
MaxChunks == 2

----------------------------------------------------------------------------
(* Strings as sequences *)

Rep(c, n) == [k \in 1..n |-> c]

RECURSIVE Concat(_)
Concat(ss) == IF ss = <<>> THEN <<>> ELSE Head(ss) \o Concat(Tail(ss))

\* str.isspace() on the characters / tokens of the model
IsSpace(c) == c \in {" ", "\n"}

\* str.replace('\n', ' ')
ReplaceNewlines(s) == [k \in 1..Len(s) |-> IF s[k] = "\n" THEN " " ELSE s[k]]

\* str.strip()
Strip(s) ==
    LET nonsp == {k \in 1..Len(s) : ~IsSpace(s[k])}
    IN  IF nonsp = {} THEN <<>>
        ELSE LET lo == CHOOSE k \in nonsp : \A j \in nonsp : k <= j
                 hi == CHOOSE k \in nonsp : \A j \in nonsp : k >= j
             IN  SubSeq(s, lo, hi)

\* the delimiter '. '
Delim == <<".", " ">>

\* str.split('. '): left-to-right, non-overlapping, keeps empty fragments
RECURSIVE SplitSentences(_)
SplitSentences(s) ==
    LET hits == {k \in 1..(Len(s) - 1) : s[k] = "." /\ s[k + 1] = " "}
    IN  IF hits = {} THEN <<s>>
        ELSE LET k == CHOOSE h \in hits : \A j \in hits : h <= j
             IN  <<SubSeq(s, 1, k - 1)>> \o SplitSentences(SubSeq(s, k + 2, Len(s)))

----------------------------------------------------------------------------
(* split_into_contextual_chunks *)

\* chunks of this length or less are filtered out
MinChunkLen == 50

\* the pieces input texts are built from: words around the filter threshold,
\* the delimiter, and the characters the chunker treats specially
Pieces == { Rep("a", 26), Rep("b", 25), Rep("c", 51),
            <<".", " ">>, <<" ">>, <<"\n">>, <<".">> }

Texts == UNION { { Concat(ps) : ps \in [1..n -> Pieces] } : n \in 0..MaxPieces }

MaxChunkSizes == (MinChunkLen + 1)..(MinChunkLen + 1 + SizeSpan)

\* the condition that closes the running chunk
ClosesChunk(cur, sentence, maxsz) == Len(cur) + Len(sentence) > maxsz /\ cur # <<>>

\* the filter of the returned list
KeepChunk(chunk) == Len(chunk) > MinChunkLen

ChunkerIdle ==
    /\ text = <<>>
    /\ max_chunk_size = 0
    /\ sentences = <<>>
    /\ idx = 0
    /\ current_chunk = <<>>
    /\ chunks = <<>>
    /\ cpc = "idle"

\* sentences = text.replace('\n', ' ').split('. '); chunks = []; current_chunk = ""
SplitText ==
    /\ cpc = "split"
    /\ sentences' = SplitSentences(ReplaceNewlines(text))
    /\ chunks' = <<>>
    /\ current_chunk' = <<>>
    /\ idx' = 1
    /\ cpc' = "loop"
    /\ UNCHANGED <<text, max_chunk_size, dvars>>

\* LoopClose with the fragment that triggers the close left out of the new buffer
LoopCloseDropsFragment ==
    /\ cpc = "loop"
    /\ idx <= Len(sentences)
    /\ ClosesChunk(current_chunk, sentences[idx], max_chunk_size)
    /\ chunks' = Append(chunks, Strip(current_chunk))
    /\ current_chunk' = <<>>
    /\ idx' = idx + 1
    /\ UNCHANGED <<text, max_chunk_size, sentences, cpc, dvars>>

\* loop body, branch that closes the running chunk
LoopClose ==
    /\ cpc = "loop"
    /\ idx <= Len(sentences)
    /\ ClosesChunk(current_chunk, sentences[idx], max_chunk_size)
    /\ chunks' = Append(chunks, Strip(current_chunk))
    /\ current_chunk' = sentences[idx] \o Delim
    /\ idx' = idx + 1
    /\ UNCHANGED <<text, max_chunk_size, sentences, cpc, dvars>>

\* loop body, branch that extends the running chunk
LoopAppend ==
    /\ cpc = "loop"
    /\ idx <= Len(sentences)
    /\ ~ClosesChunk(current_chunk, sentences[idx], max_chunk_size)
    /\ current_chunk' = current_chunk \o sentences[idx] \o Delim
    /\ idx' = idx + 1
    /\ UNCHANGED <<text, max_chunk_size, sentences, chunks, cpc, dvars>>

\* if current_chunk: chunks.append(current_chunk.strip())
Flush ==
    /\ cpc = "loop"
    /\ idx > Len(sentences)
    /\ chunks' = IF current_chunk # <<>> THEN Append(chunks, Strip(current_chunk))
                 ELSE chunks
    /\ cpc' = "filter"
    /\ UNCHANGED <<text, max_chunk_size, sentences, idx, current_chunk, dvars>>

\* chunks = [chunk for chunk in chunks if len(chunk) > 50]; return chunks
FilterChunks ==
    /\ cpc = "filter"
    /\ chunks' = SelectSeq(chunks, KeepChunk)
    /\ cpc' = "done"
    /\ UNCHANGED <<text, max_chunk_size, sentences, idx, current_chunk, dvars>>

ChunkerInit ==
    /\ text \in Texts
    /\ max_chunk_size \in MaxChunkSizes
    /\ sentences = <<>>
    /\ idx = 0
    /\ current_chunk = <<>>
    /\ chunks = <<>>
    /\ cpc = "split"

----------------------------------------------------------------------------
(* Tokens of the dispatcher's strings *)

German == "German:"
English == "English:"
\* the separator reformat_text joins the results with
Separator == "\n\n---\n\n"
\* the payload of chunk i, as it shows up in the service's answer
Payload(i) == ToString(i)

Contains(s, tok) == \E k \in 1..Len(s) : s[k] = tok

\* usage metadata a response may carry
Usages == { [prompt_tokens |-> 1, completion_tokens |-> 2, total_tokens |-> 3] }

\* message contents the remote service may answer chunk i with: a formatted
\* one, one that lacks a marker, a blank one
Contents(i) == { <<" ", German, Payload(i), "\n", English, Payload(i), "\n">>,
                 <<" ", German, Payload(i)>>,
                 <<" ">> }

\* response objects: with and without the attribute usage
Responses(i) ==
    { [content |-> c] : c \in Contents(i) } \cup
    { [content |-> c, usage |-> u] : c \in Contents(i), u \in Usages }

NoResponse == [pending |-> TRUE]
Raised == [exception |-> TRUE]

\* hasattr(response, 'usage')
HasUsage(r) == "usage" \in DOMAIN r

----------------------------------------------------------------------------
(* process_chunk, CostTracker.add_usage *)

\* default of the parameter max_workers
DefaultMaxWorkers == 3

\* the submitted tasks (keys of future_to_chunk, by chunk number)
Tasks == DOMAIN wpc

Running == {j \in Tasks : wpc[j] \notin {"queued", "finished"}}

\* CanStart with the worker limit off by one
CanStartOffByOne(i) ==
    /\ wpc[i] = "queued"
    /\ \A j \in DOMAIN wpc : j < i => wpc[j] # "queued"
    /\ Cardinality({j \in DOMAIN wpc : wpc[j] \notin {"queued", "finished"}}) < max_workers - 1

\* a pool thread takes the next work item off the FIFO work queue
CanStart(i) ==
    /\ wpc[i] = "queued"
    /\ \A j \in Tasks : j < i => wpc[j] # "queued"
    /\ Cardinality(Running) < max_workers

\* FormatResult that tags a result only when both markers are missing
FormatResultBothMissing(i, content) ==
    LET result == Strip(content)
    IN  IF ~Contains(result, German) /\ ~Contains(result, English)
        THEN <<"[Error processing chunk ", Payload(i), "]", "\n">> \o result
        ELSE result

\* the string process_chunk returns for a message content
FormatResult(i, content) ==
    LET result == Strip(content)
    IN  IF ~Contains(result, German) \/ ~Contains(result, English)
        THEN <<"[Error processing chunk ", Payload(i), "]", "\n">> \o result
        ELSE result

StartTask(i) ==
    /\ mpc = "collect"
    /\ CanStart(i)
    /\ wpc' = [wpc EXCEPT ![i] = "call"]
    /\ UNCHANGED <<cvars, nchunks, resp, tmp, fut, results, collected, total_tokens,
                   total_prompt_tokens, total_completion_tokens, max_workers, mpc, output>>

\* client.chat.completions.create(...) returns a response
RemoteReturn(i) ==
    /\ wpc[i] = "call"
    /\ \E r \in Responses(i) : resp' = [resp EXCEPT ![i] = r]
    /\ wpc' = [wpc EXCEPT ![i] = "add_usage"]
    /\ UNCHANGED <<cvars, nchunks, tmp, fut, results, collected, total_tokens,
                   total_prompt_tokens, total_completion_tokens, max_workers, mpc, output>>

\* RemoteRaise whose handler returns an error text instead of ""
RemoteRaiseReturnsText(i) ==
    /\ wpc[i] = "call"
    /\ resp' = [resp EXCEPT ![i] = Raised]
    /\ fut' = [fut EXCEPT ![i] = <<"[Error processing chunk ", Payload(i), "]">>]
    /\ wpc' = [wpc EXCEPT ![i] = "finished"]
    /\ UNCHANGED <<cvars, nchunks, tmp, results, collected, total_tokens,
                   total_prompt_tokens, total_completion_tokens, max_workers, mpc, output>>

\* the call raises; except Exception: return ""
RemoteRaise(i) ==
    /\ wpc[i] = "call"
    /\ resp' = [resp EXCEPT ![i] = Raised]
    /\ fut' = [fut EXCEPT ![i] = <<>>]
    /\ wpc' = [wpc EXCEPT ![i] = "finished"]
    /\ UNCHANGED <<cvars, nchunks, tmp, results, collected, total_tokens,
                   total_prompt_tokens, total_completion_tokens, max_workers, mpc, output>>

\* AddUsageNone without the hasattr test: the attribute access raises inside
\* the try block of process_chunk, whose handler returns ""
AddUsageNoneRaises(i) ==
    /\ wpc[i] = "add_usage"
    /\ ~HasUsage(resp[i])
    /\ fut' = [fut EXCEPT ![i] = <<>>]
    /\ wpc' = [wpc EXCEPT ![i] = "finished"]
    /\ UNCHANGED <<cvars, nchunks, resp, tmp, results, collected, total_tokens,
                   total_prompt_tokens, total_completion_tokens, max_workers, mpc, output>>

\* add_usage on a response without the attribute usage
AddUsageNone(i) ==
    /\ wpc[i] = "add_usage"
    /\ ~HasUsage(resp[i])
    /\ wpc' = [wpc EXCEPT ![i] = "validate"]
    /\ UNCHANGED <<cvars, nchunks, resp, tmp, fut, results, collected, total_tokens,
                   total_prompt_tokens, total_completion_tokens, max_workers, mpc, output>>

\* self.total_tokens += ... : load
LoadTotal(i) ==
    /\ wpc[i] = "add_usage"
    /\ HasUsage(resp[i])
    /\ tmp' = [tmp EXCEPT ![i] = total_tokens]
    /\ wpc' = [wpc EXCEPT ![i] = "store_total"]
    /\ UNCHANGED <<cvars, nchunks, resp, fut, results, collected, total_tokens,
                   total_prompt_tokens, total_completion_tokens, max_workers, mpc, output>>

\* self.total_tokens += ... : store
StoreTotal(i) ==
    /\ wpc[i] = "store_total"
    /\ total_tokens' = tmp[i] + resp[i].usage.total_tokens
    /\ wpc' = [wpc EXCEPT ![i] = "load_prompt"]
    /\ UNCHANGED <<cvars, nchunks, resp, tmp, fut, results, collected,
                   total_prompt_tokens, total_completion_tokens, max_workers, mpc, output>>

\* self.total_prompt_tokens += ... : load
LoadPrompt(i) ==
    /\ wpc[i] = "load_prompt"
    /\ tmp' = [tmp EXCEPT ![i] = total_prompt_tokens]
    /\ wpc' = [wpc EXCEPT ![i] = "store_prompt"]
    /\ UNCHANGED <<cvars, nchunks, resp, fut, results, collected, total_tokens,
                   total_prompt_tokens, total_completion_tokens, max_workers, mpc, output>>

\* self.total_prompt_tokens += ... : store
StorePrompt(i) ==
    /\ wpc[i] = "store_prompt"
    /\ total_prompt_tokens' = tmp[i] + resp[i].usage.prompt_tokens
    /\ wpc' = [wpc EXCEPT ![i] = "load_completion"]
    /\ UNCHANGED <<cvars, nchunks, resp, tmp, fut, results, collected, total_tokens,
                   total_completion_tokens, max_workers, mpc, output>>

\* self.total_completion_tokens += ... : load
LoadCompletion(i) ==
    /\ wpc[i] = "load_completion"
    /\ tmp' = [tmp EXCEPT ![i] = total_completion_tokens]
    /\ wpc' = [wpc EXCEPT ![i] = "store_completion"]
    /\ UNCHANGED <<cvars, nchunks, resp, fut, results, collected, total_tokens,
                   total_prompt_tokens, total_completion_tokens, max_workers, mpc, output>>

\* self.total_completion_tokens += ... : store
StoreCompletion(i) ==
    /\ wpc[i] = "store_completion"
    /\ total_completion_tokens' = tmp[i] + resp[i].usage.completion_tokens
    /\ wpc' = [wpc EXCEPT ![i] = "validate"]
    /\ UNCHANGED <<cvars, nchunks, resp, tmp, fut, results, collected, total_tokens,
                   total_prompt_tokens, max_workers, mpc, output>>

\* result = response.choices[0].message.content.strip(); marker check; return
Validate(i) ==
    /\ wpc[i] = "validate"
    /\ fut' = [fut EXCEPT ![i] = FormatResult(i, resp[i].content)]
    /\ wpc' = [wpc EXCEPT ![i] = "finished"]
    /\ UNCHANGED <<cvars, nchunks, resp, tmp, results, collected, total_tokens,
                   total_prompt_tokens, total_completion_tokens, max_workers, mpc, output>>

Worker(i) ==
    \/ StartTask(i)
    \/ RemoteReturn(i)
    \/ RemoteRaise(i)
    \/ AddUsageNone(i)
    \/ LoadTotal(i)
    \/ StoreTotal(i)
    \/ LoadPrompt(i)
    \/ StorePrompt(i)
    \/ LoadCompletion(i)
    \/ StoreCompletion(i)
    \/ Validate(i)

----------------------------------------------------------------------------
(* process_chunks_parallel, reformat_text *)

\* Collected that appends only non-empty results
CollectedNonEmptyOnly(res, r) == IF r = <<>> THEN res ELSE Append(res, r)

\* what the loop over as_completed appends for a completed future
Collected(res, r) == Append(res, r)

\* "\n\n---\n\n".join(...)
RECURSIVE JoinSep(_)
JoinSep(rs) ==
    IF rs = <<>> THEN <<>>
    ELSE IF Len(rs) = 1 THEN rs[1]
    ELSE rs[1] \o <<Separator>> \o JoinSep(Tail(rs))

NonEmpty(r) == r # <<>>

\* FormattedText without the filter on empty results
FormattedTextUnfiltered(rs) == JoinSep(rs)

\* "\n\n---\n\n".join(r for r in results if r)
FormattedText(rs) == JoinSep(SelectSeq(rs, NonEmpty))

\* open(input_file) and f.read() succeed; chunks = split_into_contextual_chunks(text)
ReadInput ==
    /\ mpc = "read"
    /\ nchunks' \in 0..MaxChunks
    /\ mpc' = "submit"
    /\ UNCHANGED <<cvars, wpc, resp, tmp, fut, results, collected, total_tokens,
                   total_prompt_tokens, total_completion_tokens, max_workers, output>>

\* open(input_file) raises; except: print, raise
ReadFail ==
    /\ mpc = "read"
    /\ mpc' = "read_failed"
    /\ UNCHANGED <<cvars, nchunks, wpc, resp, tmp, fut, results, collected, total_tokens,
                   total_prompt_tokens, total_completion_tokens, max_workers, output>>

\* results = []; every chunk is submitted to the executor, in index order
Submit ==
    /\ mpc = "submit"
    /\ wpc' = [i \in 1..nchunks |-> "queued"]
    /\ resp' = [i \in 1..nchunks |-> NoResponse]
    /\ tmp' = [i \in 1..nchunks |-> 0]
    /\ fut' = [i \in 1..nchunks |-> <<>>]
    /\ results' = <<>>
    /\ collected' = {}
    /\ mpc' = "collect"
    /\ UNCHANGED <<cvars, nchunks, total_tokens, total_prompt_tokens,
                   total_completion_tokens, max_workers, output>>

\* as_completed yields a completed future; results.append(future.result()).
\* process_chunk catches every Exception itself, so future.result() returns a
\* string; futures already complete when the loop starts come in no fixed order
Collect(i) ==
    /\ mpc = "collect"
    /\ i \in Tasks \ collected
    /\ wpc[i] = "finished"
    /\ results' = Collected(results, fut[i])
    /\ collected' = collected \cup {i}
    /\ UNCHANGED <<cvars, nchunks, wpc, resp, tmp, fut, total_tokens, total_prompt_tokens,
                   total_completion_tokens, max_workers, mpc, output>>

\* as_completed is exhausted, the executor shuts down; return results;
\* formatted_text = join(...)
ReturnResults ==
    /\ mpc = "collect"
    /\ collected = Tasks
    /\ mpc' = "write"
    /\ UNCHANGED <<cvars, nchunks, wpc, resp, tmp, fut, results, collected, total_tokens,
                   total_prompt_tokens, total_completion_tokens, max_workers, output>>

\* open(output_file, 'w') and f.write(formatted_text) succeed
WriteOutput ==
    /\ mpc = "write"
    /\ output' = FormattedText(results)
    /\ mpc' = "report"
    /\ UNCHANGED <<cvars, nchunks, wpc, resp, tmp, fut, results, collected, total_tokens,
                   total_prompt_tokens, total_completion_tokens, max_workers>>

\* open(output_file, 'w') raises; except: print, raise
WriteFail ==
    /\ mpc = "write"
    /\ mpc' = "write_failed"
    /\ UNCHANGED <<cvars, nchunks, wpc, resp, tmp, fut, results, collected, total_tokens,
                   total_prompt_tokens, total_completion_tokens, max_workers, output>>

\* print(cost_tracker.report())
Report ==
    /\ mpc = "report"
    /\ mpc' = "done"
    /\ UNCHANGED <<cvars, nchunks, wpc, resp, tmp, fut, results, collected, total_tokens,
                   total_prompt_tokens, total_completion_tokens, max_workers, output>>

DispatcherIdle ==
    /\ nchunks = 0
    /\ wpc = <<>>
    /\ resp = <<>>
    /\ tmp = <<>>
    /\ fut = <<>>
    /\ results = <<>>
    /\ collected = {}
    /\ total_tokens = 0
    /\ total_prompt_tokens = 0
    /\ total_completion_tokens = 0
    /\ max_workers = DefaultMaxWorkers
    /\ mpc = "idle"
    /\ output = <<>>

\* cost_tracker = CostTracker(); reformat_text is entered
DispatcherInit ==
    /\ nchunks = 0
    /\ wpc = <<>>
    /\ resp = <<>>
    /\ tmp = <<>>
    /\ fut = <<>>
    /\ results = <<>>
    /\ collected = {}
    /\ total_tokens = 0
    /\ total_prompt_tokens = 0
    /\ total_completion_tokens = 0
    /\ max_workers \in {1, DefaultMaxWorkers}
    /\ mpc = "read"
    /\ output = <<>>

----------------------------------------------------------------------------
(* Specifications *)

\* the pipeline of reformat_text
Init == ChunkerIdle /\ DispatcherInit

Next ==
    \/ ReadInput
    \/ ReadFail
    \/ Submit
    \/ \E i \in Tasks : Worker(i)
    \/ \E i \in Tasks : Collect(i)
    \/ ReturnResults
    \/ WriteOutput
    \/ WriteFail
    \/ Report

Spec == Init /\ [][Next]_vars

\* every thread that can take a step eventually takes one, and every remote
\* call eventually returns or raises
Fairness ==
    /\ \A i \in 1..(MaxChunks + 1) : WF_vars(i \in Tasks /\ Worker(i))
    /\ WF_vars(Next)

LiveSpec == Init /\ [][Next]_vars /\ Fairness

\* split_into_contextual_chunks as a function of its arguments
ChunkerSpecInit == ChunkerInit /\ DispatcherIdle

ChunkerNext ==
    \/ SplitText
    \/ LoopClose
    \/ LoopAppend
    \/ Flush
    \/ FilterChunks

ChunkerSpec == ChunkerSpecInit /\ [][ChunkerNext]_vars

----------------------------------------------------------------------------
(* Properties *)

\* process_chunks_parallel has returned its list
Returned == mpc \in {"write", "write_failed", "report", "done"}

\* reformat_text has written the output file
Written == mpc \in {"report", "done"}

IsInfix(sub, s) ==
    \E k \in 0..(Len(s) - Len(sub)) : SubSeq(s, k + 1, k + Len(sub)) = sub

CountTok(s, tok) == Cardinality({k \in 1..Len(s) : s[k] = tok})

NonEmptyCount(rs) == Cardinality({k \in 1..Len(rs) : rs[k] # <<>>})

ErrorTag(i) == <<"[Error processing chunk ", Payload(i), "]", "\n">>

\* the response of task i came back and lacks one of the markers
Malformed(i) ==
    /\ "content" \in DOMAIN resp[i]
    /\ \/ ~Contains(resp[i].content, German)
       \/ ~Contains(resp[i].content, English)

\* sum of one usage count over the responses that carry usage metadata
RECURSIVE ReportedSum(_, _)
ReportedSum(rs, field) ==
    IF rs = <<>> THEN 0
    ELSE (IF "usage" \in DOMAIN Head(rs) THEN Head(rs).usage[field] ELSE 0)
         + ReportedSum(Tail(rs), field)

\* C1: the list process_chunks_parallel returns holds, at position i, the
\* result produced for chunk i, whatever order the tasks finished in
C1_ResultsInChunkOrder ==
    Returned => /\ Len(results) = nchunks
                /\ \A i \in 1..nchunks : results[i] = fut[i]

\* C2: once all workers have finished, each total of the cost tracker equals
\* the sum of the corresponding count over the responses that reported usage
C2_NoLostUpdate ==
    Returned => /\ total_tokens = ReportedSum(resp, "total_tokens")
                /\ total_prompt_tokens = ReportedSum(resp, "prompt_tokens")
                /\ total_completion_tokens = ReportedSum(resp, "completion_tokens")

\* C3: a chunk whose remote call raised has the empty string as its result;
\* every other chunk is still processed and has its own, non-empty result in
\* the returned list, and the batch returns
C3_FailureIsolated ==
    /\ \A i \in Tasks : resp[i] = Raised => wpc[i] = "finished" /\ fut[i] = <<>>
    /\ Returned =>
         \A i \in Tasks :
            /\ wpc[i] = "finished"
            /\ resp[i] # Raised =>
                 /\ fut[i] # <<>>
                 /\ Contains(fut[i], Payload(i))
                 /\ \E k \in 1..Len(results) : results[k] = fut[i]

C3_Witness ==
    /\ mpc = "done"
    /\ \E i, j \in Tasks : resp[i] = Raised /\ resp[j] # Raised /\ output = fut[j]

\* C4: process_chunks_parallel returns exactly one result for each submitted
\* chunk, the empty ones included
C4_OneResultPerChunk ==
    Returned =>
      /\ Len(results) = nchunks
      /\ \E perm \in [1..nchunks -> 1..nchunks] :
            /\ \A a, b \in 1..nchunks : perm[a] = perm[b] => a = b
            /\ \A k \in 1..nchunks : results[k] = fut[perm[k]]

C4_Witness ==
    /\ Returned
    /\ nchunks >= 2
    /\ \E i, j \in Tasks : resp[i] = Raised /\ Malformed(j)
    /\ results[1] = <<>>

\* C5: a response that lacks a marker yields the error tag followed by the
\* (stripped) raw output, which is non-empty and is part of the written output
C5_MalformedKept ==
    \A i \in Tasks :
       (wpc[i] = "finished" /\ Malformed(i)) =>
          /\ fut[i] = ErrorTag(i) \o Strip(resp[i].content)
          /\ fut[i] # <<>>
          /\ Written => IsInfix(fut[i], output)

C5_Witness ==
    /\ mpc = "done"
    /\ \E i, j \in Tasks :
          /\ i # j
          /\ Malformed(i) /\ Malformed(j)
          /\ resp[i].content = <<" ">>
          /\ Contains(resp[j].content, German)

\* C7 as stated: the written output has exactly (number of non-empty
\* results - 1) occurrences of the separator
C7_SeparatorsCountMinusOne ==
    Written => CountTok(output, Separator) = NonEmptyCount(results) - 1

\* C7: the written output has (number of non-empty results - 1) occurrences
\* of the separator when some result is non-empty, and none (it is empty)
\* when every result is empty
C7_SeparatorsBetweenNonEmpty ==
    Written =>
      LET n == NonEmptyCount(results)
      IN  /\ n >= 1 => CountTok(output, Separator) = n - 1
          /\ n = 0 => output = <<>>

C7_Witness ==
    /\ mpc = "done"
    /\ NonEmptyCount(results) = 2
    /\ CountTok(output, Separator) = 1

\* C9: with fair scheduling and remote calls that return or raise, a run
\* whose file operations succeed ends with the output written and the
\* summary printed
C9_EventuallyReported ==
    \/ <>(mpc = "read_failed")
    \/ <>(mpc = "write_failed")
    \/ <>(mpc = "done")

C9_Witness ==
    /\ mpc = "done"
    /\ nchunks >= 2
    /\ \E i, j \in Tasks : resp[i] = Raised /\ Malformed(j) /\ output = fut[j]

----------------------------------------------------------------------------
(* Properties of the chunker *)

Min(S) == CHOOSE x \in S : \A y \in S : x <= y

\* str.join with the delimiter
RECURSIVE JoinDelimited(_)
JoinDelimited(fs) ==
    IF fs = <<>> THEN <<>>
    ELSE IF Len(fs) = 1 THEN fs[1]
    ELSE fs[1] \o <<".", " ">> \o JoinDelimited(Tail(fs))

\* the fragments of a run, each followed by the delimiter
RECURSIVE WithDelimiters(_)
WithDelimiters(fs) ==
    IF fs = <<>> THEN <<>> ELSE Head(fs) \o <<".", " ">> \o WithDelimiters(Tail(fs))

\* the consecutive runs fs is cut into by cutting after the positions in cuts
RECURSIVE RunsFrom(_, _, _)
RunsFrom(fs, cuts, start) ==
    IF start > Len(fs) THEN <<>>
    ELSE LET ends == {c \in cuts : c >= start}
             e == IF ends = {} THEN Len(fs) ELSE Min(ends)
         IN  <<SubSeq(fs, start, e)>> \o RunsFrom(fs, cuts, e + 1)

LongerThanFifty(c) == Len(c) > 50

RunChunks(fs, cuts) ==
    LET runs == RunsFrom(fs, cuts, 1)
    IN  [k \in 1..Len(runs) |-> Strip(WithDelimiters(runs[k]))]

\* C6: no returned chunk is longer than max_chunk_size, unless it consists
\* of a single fragment that is itself longer than max_chunk_size
C6_NoOversizedChunk ==
    cpc = "done" =>
      \A k \in 1..Len(chunks) :
         \/ Len(chunks[k]) <= max_chunk_size
         \/ \E j \in 1..Len(sentences) :
               /\ Len(sentences[j]) > max_chunk_size
               /\ chunks[k] = Strip(sentences[j] \o <<".", " ">>)

\* C8: the fragments are those of the input; each goes whole, in order, into
\* exactly one chunk (a run of consecutive fragments, each with its
\* delimiter, stripped at both ends), and the chunks returned are exactly
\* the ones longer than 50 characters, in order
C8_ContentPreserved ==
    cpc = "done" =>
      /\ JoinDelimited(sentences) = ReplaceNewlines(text)
      /\ \A j \in 1..Len(sentences) : ~IsInfix(<<".", " ">>, sentences[j])
      /\ \E cuts \in SUBSET (1..(Len(sentences) - 1)) :
            chunks = SelectSeq(RunChunks(sentences, cuts), LongerThanFifty)

C8_Witness ==
    /\ cpc = "done"
    /\ Len(chunks) >= 1
    /\ Len(sentences) >= 2
    /\ \E j \in 1..Len(sentences) :
          /\ Len(sentences[j]) > 20
          /\ \A k \in 1..Len(chunks) : ~IsInfix(sentences[j], chunks[k])

====
